---- MODULE Spec2Model ----
(***************************************************************************)
(* Model of the teacher record store of app.py: the teachers table and    *)
(* its schema, the photo directory, the st.cache_data cache of get_all,    *)
(* the session state (photo_cleared, confirm_delete flags), setup_database,*)
(* the handlers add / update / delete / get_by_id / get_all, the edit form *)
(* that calls update and the list view that calls delete.                  *)
(***************************************************************************)
EXTENDS Integers, Sequences, FiniteSets, TLC

\* ---- bounds ------------------------------------------------------------
MaxId == 2      \* ids the AUTOINCREMENT counter may hand out
MaxRows == 1    \* rows alive at one time in the runs with file faults
MaxHex == 2     \* distinct values os.urandom(8) is drawn from
MaxClicks == 3  \* button clicks the list view's history keeps

\* ---- values ------------------------------------------------------------
\* Python None and SQL NULL
None == "<None>"

TextCols == {"full_name", "school_affiliation", "major_subject",
             "teaching_subjects", "contact_number", "position"}

Cols == TextCols \cup {"photo_path"}

\* an upload: photo_file.name already split by os.path.splitext
PhotoFiles == {[base |-> "a", ext |-> ".png"]}

\* photo_file=None
NoPhoto == [base |-> "", ext |-> ""]

StoreOutcomes == {"ok", "open_fails", "write_fails"}

RemoveOutcomes == {"ok", "fails"}

HexValues == 1..MaxHex

\* the environment's answers to one handler call: the os.urandom values and
\* the outcome of each file operation the handler may perform
NoIO == [hex1 |-> 1, st1 |-> "ok", rm |-> "ok", hex2 |-> 1, st2 |-> "ok"]

ArgsOf(fn, cn, pos, mid) ==
    [full_name |-> fn, school_affiliation |-> mid, major_subject |-> mid,
     teaching_subjects |-> mid, contact_number |-> cn, position |-> pos]

NoArgs == ArgsOf(None, None, None, None)

\* the columns of CREATE TABLE teachers, and those of a table created before
\* position was added
AllColumns == {"id"} \cup Cols

OldColumns == AllColumns \ {"position"}

VARIABLES teachers, seq, files, cache, has_session, photo_cleared, last, db,
          form, run, list_view

vars == <<teachers, seq, files, cache, has_session, photo_cleared, last, db,
          form, run, list_view>>

\* the state the store handlers and the single-run forms leave alone: the
\* schema, an edit form that stays open on a screen between two runs, and
\* the position inside a handler when its phases are taken one at a time,
\* and the list view's buttons and confirmation flags
aside == <<db, form, run, list_view>>

\* ---- helpers -----------------------------------------------------------
NoCache == [valid |-> FALSE, data |-> << >>]

\* f"{splitext(name)[0]}_{os.urandom(8).hex()}{extension}"
NewFilename(photo, hex) == photo.base \o "_" \o ToString(hex) \o photo.ext

\* with open(path, "wb") as f: f.write(...)   ("wb" creates or truncates)
StoreFile(fs, name, outcome) ==
    IF outcome = "open_fails" THEN fs ELSE fs \cup {name}

\* a removal that never takes the file away
RemoveFile_Skipped(fs, name, outcome) == fs

\* if os.path.exists(p): try: os.remove(p) except: warn
RemoveFile(fs, name, outcome) ==
    IF name \in fs /\ outcome = "ok" THEN fs \ {name} ELSE fs

\* the result of get_teacher_by_id_from_db: << >> is None, <<row>> is dict(row)
get_teacher_by_id_from_db(t, id) ==
    IF id \in DOMAIN t THEN <<t[id]>> ELSE << >>

\* a handler that forgets to clear the cache
st_cache_data_clear_Forgotten(ch) == ch

\* st.cache_data.clear()
st_cache_data_clear(ch) == NoCache

\* an INSERT whose value list has contact_number and position exchanged
InsertRow_Swapped(t, id, row) ==
    [i \in DOMAIN t \cup {id} |->
        IF i = id
        THEN [row EXCEPT !.contact_number = row.position,
                         !.position = row.contact_number]
        ELSE t[i]]

\* INSERT INTO teachers (...) VALUES (...); the id is the next AUTOINCREMENT value
InsertRow(t, id, row) ==
    [i \in DOMAIN t \cup {id} |-> IF i = id THEN row ELSE t[i]]

\* a DELETE that is never committed
DeleteRow_Uncommitted(t, id) == t

\* DELETE FROM teachers WHERE id = ?
DeleteRow(t, id) == [i \in DOMAIN t \ {id} |-> t[i]]

\* a comparison without the "is not None" test
ChangedTextCols_NoNoneTest(row, args) ==
    {c \in TextCols : args[c] /= row[c]}

\* the columns update_teacher_in_db compares and finds changed
ChangedTextCols(row, args) ==
    {c \in TextCols : args[c] /= None /\ args[c] /= row[c]}

\* ---- setup_database -----------------------------------------------------
\* (the st.connection branch and the sqlite3 branch run the same statements)
\* db: whether the teachers table exists, its columns (PRAGMA table_info),
\* and whether the photo directory exists
NoTable == [table |-> FALSE, columns |-> {}, dir |-> FALSE]

ReadyDb == [table |-> TRUE, columns |-> AllColumns, dir |-> TRUE]

\* CREATE TABLE IF NOT EXISTS teachers (...)
CreateTableIfNotExists(d) ==
    IF d.table THEN d ELSE [d EXCEPT !.table = TRUE, !.columns = AllColumns]

\* a start-up that adds the column without looking at the table first
PositionMissing_NotChecked(columns) == TRUE

\* if 'position' not in columns
PositionMissing(columns) == "position" \notin columns

\* ALTER TABLE teachers ADD COLUMN position TEXT: the rows get NULL there
AlterAddColumn(t, col) ==
    [i \in DOMAIN t |->
        [c \in DOMAIN t[i] \cup {col} |->
            IF c \in DOMAIN t[i] THEN t[i][c] ELSE None]]

setup_database(d, t) ==
    LET d1 == CreateTableIfNotExists(d)
        columns == d1.columns
        alter == PositionMissing(columns)
        d2 == IF alter THEN [d1 EXCEPT !.columns = columns \cup {"position"}]
              ELSE d1
        \* if not os.path.exists(UPLOAD_FOLDER): os.makedirs(UPLOAD_FOLDER)
        d3 == [d2 EXCEPT !.dir = TRUE]
    IN  IF alter /\ "position" \in columns
        THEN \* SQLite refuses to add a column the table has: the ALTER raises
             \* "duplicate column name" and the rest does not run
             [db |-> d1, teachers |-> t, ret |-> "OperationalError"]
        ELSE [db |-> d3,
              teachers |-> IF alter THEN AlterAddColumn(t, "position") ELSE t,
              ret |-> IF alter THEN "altered"
                      ELSE IF ~d.table THEN "created" ELSE "unchanged"]

\* the record has a photo_path whose file is in the directory
HasPhotoFile(t, fs, id) ==
    /\ id \in DOMAIN t
    /\ t[id].photo_path /= None
    /\ t[id].photo_path \in fs

\* ---- add_teacher_to_db --------------------------------------------------
\* The handler as a function of the state it reads, its arguments and the
\* environment's answers; it yields the state it leaves and what it returns.
add_teacher_to_db(t, sq, fs, ch, args, photo, io) ==
    LET new_filename == NewFilename(photo, io.hex1)
        fs1 == IF photo /= NoPhoto THEN StoreFile(fs, new_filename, io.st1) ELSE fs
        saved_photo_path ==
            IF photo /= NoPhoto /\ io.st1 = "ok" THEN new_filename ELSE None
        \* except Exception as e: st.error(...)
        store_raised == photo /= NoPhoto /\ io.st1 /= "ok"
        row == [c \in Cols |->
                   IF c = "photo_path" THEN saved_photo_path ELSE args[c]]
    IN  IF args.full_name = None
        THEN \* full_name TEXT NOT NULL: the INSERT raises, nothing after it runs
             [teachers |-> t, seq |-> sq, files |-> fs1, cache |-> ch,
              ret |-> "IntegrityError", id |-> 0, ioerr |-> store_raised]
        ELSE [teachers |-> InsertRow(t, sq + 1, row),
              seq |-> sq + 1, files |-> fs1, cache |-> st_cache_data_clear(ch),
              ret |-> "None", id |-> sq + 1, ioerr |-> store_raised]

\* ---- update_teacher_in_db ----------------------------------------------
update_teacher_in_db(t, fs, ch, sess, cleared, id, args, photo, io) ==
    LET current_teacher == get_teacher_by_id_from_db(t, id)
    IN  IF current_teacher = << >>
        THEN [teachers |-> t, files |-> fs, cache |-> ch, ret |-> "False",
              ioerr |-> FALSE]
        ELSE
        LET row == current_teacher[1]
            text == ChangedTextCols(row, args)
            has_old == row.photo_path /= None
            \* remove the old file: new photo branch, else photo_cleared branch
            fs1 == IF (photo /= NoPhoto \/ cleared) /\ has_old
                   THEN RemoveFile(fs, row.photo_path, io.rm) ELSE fs
            name1 == NewFilename(photo, io.hex1)
            fs2 == IF photo /= NoPhoto THEN StoreFile(fs1, name1, io.st1) ELSE fs1
            photo_in_updates ==
                IF photo /= NoPhoto THEN io.st1 = "ok" ELSE cleared
            photo_value1 == IF photo /= NoPhoto THEN name1 ELSE None
            updates == text \cup (IF photo_in_updates THEN {"photo_path"} ELSE {})
            \* st.connection branch: the photo is stored a second time
            name2 == NewFilename(photo, io.hex2)
            fs3 == IF photo /= NoPhoto THEN StoreFile(fs2, name2, io.st2) ELSE fs2
            photo_in_named == photo /= NoPhoto \/ cleared
            photo_value2 ==
                IF photo /= NoPhoto /\ io.st2 = "ok" THEN name2 ELSE None
            named_params == text \cup (IF photo_in_named THEN {"photo_path"} ELSE {})
            written == IF sess THEN named_params ELSE updates
            photo_value == IF sess THEN photo_value2 ELSE photo_value1
            \* the st.warning / st.error branches of the file operations
            remove_raised == /\ (photo /= NoPhoto \/ cleared) /\ has_old
                             /\ row.photo_path \in fs /\ io.rm = "fails"
            store1_raised == photo /= NoPhoto /\ io.st1 /= "ok"
            store2_raised == photo /= NoPhoto /\ io.st2 /= "ok"
            new_row == [c \in Cols |->
                           IF c \notin written THEN row[c]
                           ELSE IF c = "photo_path" THEN photo_value
                           ELSE args[c]]
        IN  IF updates = {}
            THEN [teachers |-> t, files |-> fs2, cache |-> ch, ret |-> "False",
                  ioerr |-> remove_raised \/ store1_raised]
            ELSE [teachers |-> [t EXCEPT ![id] = new_row],
                  files |-> IF sess THEN fs3 ELSE fs2,
                  cache |-> st_cache_data_clear(ch), ret |-> "True",
                  ioerr |-> \/ remove_raised \/ store1_raised
                            \/ (sess /\ store2_raised)]

\* ---- delete_teacher_from_db --------------------------------------------
\* a delete that gives up, row kept, when the photo file cannot be removed
delete_teacher_from_db_RollsBack(t, fs, ch, id, io) ==
    IF /\ HasPhotoFile(t, fs, id) /\ io.rm = "fails"
    THEN [teachers |-> t, files |-> fs, cache |-> ch, ret |-> "False",
          ioerr |-> TRUE]
    ELSE [teachers |-> DeleteRow(t, id),
          files |-> IF id \in DOMAIN t /\ t[id].photo_path /= None
                    THEN RemoveFile(fs, t[id].photo_path, io.rm) ELSE fs,
          cache |-> st_cache_data_clear(ch),
          ret |-> IF id \in DOMAIN t THEN "True" ELSE "False",
          ioerr |-> FALSE]

delete_teacher_from_db(t, fs, ch, id, io) ==
    LET teacher_to_delete == get_teacher_by_id_from_db(t, id)
    IN  IF teacher_to_delete = << >>
        THEN [teachers |-> t, files |-> fs, cache |-> ch, ret |-> "False",
              ioerr |-> FALSE]
        ELSE
        LET row == teacher_to_delete[1]
        IN  [teachers |-> DeleteRow(t, id),
             files |-> IF row.photo_path /= None
                       THEN RemoveFile(fs, row.photo_path, io.rm) ELSE fs,
             cache |-> st_cache_data_clear(ch), ret |-> "True",
             ioerr |-> /\ row.photo_path /= None /\ row.photo_path \in fs
                       /\ io.rm = "fails"]

\* ---- get_all_teachers_from_db_cached -----------------------------------
\* st.cache_data: a stored value is returned as is, else the table is read
get_all_teachers_from_db_cached(t, ch) ==
    IF ch.valid THEN ch.data ELSE t

\* The environment answers only for the file operations a call performs:
\* stores tells whether the call writes an upload, removes whether it finds
\* an old file to remove, twice whether the upload is written a second time
\* (st.connection path of update). At most one file operation of a call fails.
AnswersFor(stores, removes, twice) ==
    {io \in [hex1 : IF stores THEN HexValues ELSE {1},
             st1 : IF stores THEN StoreOutcomes ELSE {"ok"},
             rm : IF removes THEN RemoveOutcomes ELSE {"ok"},
             hex2 : IF twice THEN HexValues ELSE {1},
             st2 : IF twice THEN StoreOutcomes ELSE {"ok"}] :
        Cardinality({k \in {"st1", "rm", "st2"} : io[k] /= "ok"}) <= 1}

\* ---- the state machine --------------------------------------------------
\* run: the handler call in progress when the phases of a handler are taken
\* one at a time: the call, what it will have done when it returns (r), the
\* state it was called in (before), the phases it goes through and how far
\* it is (pc)
NoRun == [op |-> "none", id |-> 0, args |-> NoArgs, photo |-> FALSE,
          r |-> [teachers |-> << >>, seq |-> 0, files |-> {}, cache |-> NoCache,
                 ret |-> "None", ioerr |-> FALSE],
          before |-> [teachers |-> << >>, files |-> {}, cache |-> NoCache],
          steps |-> << >>, pc |-> 1]

\* list_view: the list page of one browser session: the records whose card
\* (with its delete button) the last script run drew, the records whose
\* "confirm" button it drew, the confirm_delete_<id> flags of the session
\* state, and the last clicks (at most MaxClicks of them)
NoListView == [cards |-> {}, confirm_buttons |-> {}, confirm_delete |-> {},
               clicks |-> << >>]

NoClick == [button |-> "none", id |-> 0]

\* st.button: True only in the script run its own click started
Button(name, id, click) == click = [button |-> name, id |-> id]

\* the last MaxClicks clicks
Remember(clicks, click) ==
    LET all == Append(clicks, click)
    IN  IF Len(all) > MaxClicks THEN Tail(all) ELSE all

\* form: the edit form open on a screen: the record it edits (0: none) and
\* the text its fields were filled with
NoForm == [id |-> 0, shown |-> NoArgs]

\* last: what the most recent handler call was, on what, and what it returned
\* (upload: the caller held a new photo file; photo: the handler was given it)
NoCall == [op |-> "none", id |-> 0, ret |-> "None", args |-> NoArgs,
           photo |-> FALSE, cleared |-> FALSE, cached |-> FALSE, ioerr |-> FALSE,
           upload |-> FALSE]

Init ==
    /\ teachers = << >>
    /\ seq = 0
    /\ files = {}
    /\ cache = NoCache
    /\ has_session \in BOOLEAN
    /\ photo_cleared = FALSE
    /\ last = NoCall
    /\ db = ReadyDb
    /\ form = NoForm
    /\ run = NoRun
    /\ list_view = NoListView

Ids == 1..MaxId

\* line 481: every script run starts with setup_database()
SetupDatabase ==
    /\ \E r \in {setup_database(db, teachers)} :
           /\ db' = r.db
           /\ teachers' = r.teachers
           /\ last' = [NoCall EXCEPT !.op = "setup", !.ret = r.ret]
    /\ UNCHANGED <<seq, files, cache, has_session, photo_cleared, form, run,
                   list_view>>

AddTeacher(args, photo, io) ==
    /\ seq < MaxId
    /\ \E r \in {add_teacher_to_db(teachers, seq, files, cache, args, photo, io)} :
           /\ teachers' = r.teachers
           /\ seq' = r.seq
           /\ files' = r.files
           /\ cache' = r.cache
           /\ last' = [op |-> "add", id |-> r.id, ret |-> r.ret, args |-> args,
                       photo |-> photo /= NoPhoto, cleared |-> photo_cleared,
                       cached |-> cache.valid, ioerr |-> r.ioerr,
                       upload |-> photo /= NoPhoto]
    /\ UNCHANGED <<has_session, photo_cleared>>
    /\ UNCHANGED aside

UpdateTeacher(id, args, photo, io) ==
    /\ \E r \in {update_teacher_in_db(teachers, files, cache, has_session,
                                     photo_cleared, id, args, photo, io)} :
           /\ teachers' = r.teachers
           /\ files' = r.files
           /\ cache' = r.cache
           /\ last' = [op |-> "update", id |-> id, ret |-> r.ret, args |-> args,
                       photo |-> photo /= NoPhoto, cleared |-> photo_cleared,
                       cached |-> cache.valid, ioerr |-> r.ioerr,
                       upload |-> photo /= NoPhoto]
    /\ UNCHANGED <<seq, has_session, photo_cleared>>
    /\ UNCHANGED aside

DeleteTeacher(id, io) ==
    /\ \E r \in {delete_teacher_from_db(teachers, files, cache, id, io)} :
           /\ teachers' = r.teachers
           /\ files' = r.files
           /\ cache' = r.cache
           /\ last' = [op |-> "delete", id |-> id, ret |-> r.ret, args |-> NoArgs,
                       photo |-> FALSE, cleared |-> photo_cleared,
                       cached |-> cache.valid, ioerr |-> r.ioerr,
                       upload |-> FALSE]
    /\ UNCHANGED <<seq, has_session, photo_cleared>>
    /\ UNCHANGED aside

\* the list view reads the table through the cache
GetAllTeachers ==
    /\ cache' = [valid |-> TRUE,
                 data |-> get_all_teachers_from_db_cached(teachers, cache)]
    /\ last' = [NoCall EXCEPT !.op = "get_all", !.cached = cache.valid]
    /\ UNCHANGED <<teachers, seq, files, has_session, photo_cleared>>
    /\ UNCHANGED aside

\* ttl=3600: the cached value expires
CacheExpire ==
    /\ cache.valid
    /\ cache' = NoCache
    /\ last' = [NoCall EXCEPT !.op = "expire", !.cached = TRUE]
    /\ UNCHANGED <<teachers, seq, files, has_session, photo_cleared>>
    /\ UNCHANGED aside

\* the navigation buttons reset the flag
NavButton ==
    /\ photo_cleared
    /\ photo_cleared' = FALSE
    /\ last' = [NoCall EXCEPT !.op = "nav"]
    /\ UNCHANGED <<teachers, seq, files, cache, has_session>>
    /\ UNCHANGED aside

\* what st.text_input shows for a stored value: value=teacher_data[c] or ""
FormDefault(v) == IF v = None THEN "" ELSE v

\* the values the edit form submits: a field the user did not touch
\* (edits[c] = None) is submitted as the form showed it
FormValues(row, edits) ==
    [c \in TextCols |-> IF edits[c] = None THEN FormDefault(row[c]) ELSE edits[c]]

\* the edit view: load the record, show the form, submit it
EditFormSubmit(id, edits, new_photo_file, clear_photo, io) ==
    /\ id \in DOMAIN teachers
    /\ \E new \in {FormValues(get_teacher_by_id_from_db(teachers, id)[1], edits)} :
       LET photo_to_save == IF clear_photo THEN NoPhoto ELSE new_photo_file
       IN  IF new.full_name = ""
           THEN /\ photo_cleared' = clear_photo
                /\ last' = [NoCall EXCEPT !.op = "edit_rejected", !.id = id,
                                          !.cleared = clear_photo]
                /\ UNCHANGED <<teachers, files, cache>>
           ELSE \E r \in {update_teacher_in_db(teachers, files, cache, has_session,
                              clear_photo, id, new, photo_to_save, io)} :
                /\ teachers' = r.teachers
                /\ files' = r.files
                /\ cache' = r.cache
                /\ photo_cleared' = IF r.ret = "True" THEN FALSE ELSE clear_photo
                /\ last' = [op |-> "update", id |-> id, ret |-> r.ret,
                            args |-> new, photo |-> photo_to_save /= NoPhoto,
                            cleared |-> clear_photo, cached |-> cache.valid,
                            ioerr |-> r.ioerr,
                            upload |-> new_photo_file /= NoPhoto]
    /\ UNCHANGED <<seq, has_session>>
    /\ UNCHANGED aside

\* the edit view is opened on a record: the script run reads the record
\* (line 645) and fills the fields (650-655); the form stays on the screen
EditFormLoad(id) ==
    /\ id \in DOMAIN teachers
    /\ \E row \in {get_teacher_by_id_from_db(teachers, id)[1]} :
           form' = [id |-> id, shown |-> [c \in TextCols |-> FormDefault(row[c])]]
    /\ last' = [NoCall EXCEPT !.op = "edit_load", !.id = id]
    /\ UNCHANGED <<teachers, seq, files, cache, has_session, photo_cleared, db,
                   run, list_view>>

\* the form that was opened earlier is submitted: a field the user did not
\* touch (edits[c] = None) carries the text the form was filled with;
\* update_teacher_in_db reads the record again (line 224)
EditFormSubmitLoaded(edits, new_photo_file, clear_photo, io) ==
    /\ form.id /= 0
    /\ \E id \in {form.id},
          new \in {[c \in TextCols |->
                      IF edits[c] = None THEN form.shown[c] ELSE edits[c]]} :
       LET photo_to_save == IF clear_photo THEN NoPhoto ELSE new_photo_file
       IN  IF get_teacher_by_id_from_db(teachers, id) = << >>
           THEN \* lines 697-700: the record is gone, back to the list
                /\ form' = NoForm
                /\ last' = [NoCall EXCEPT !.op = "edit_missing", !.id = id]
                /\ UNCHANGED <<teachers, files, cache, photo_cleared>>
           ELSE IF new.full_name = ""
           THEN /\ photo_cleared' = clear_photo
                /\ last' = [NoCall EXCEPT !.op = "edit_rejected", !.id = id,
                                          !.cleared = clear_photo]
                /\ UNCHANGED <<teachers, files, cache, form>>
           ELSE \E r \in {update_teacher_in_db(teachers, files, cache, has_session,
                              clear_photo, id, new, photo_to_save, io)} :
                /\ teachers' = r.teachers
                /\ files' = r.files
                /\ cache' = r.cache
                /\ photo_cleared' = IF r.ret = "True" THEN FALSE ELSE clear_photo
                /\ form' = IF r.ret = "True" THEN NoForm ELSE form
                /\ last' = [op |-> "update", id |-> id, ret |-> r.ret,
                            args |-> new, photo |-> photo_to_save /= NoPhoto,
                            cleared |-> clear_photo, cached |-> cache.valid,
                            ioerr |-> r.ioerr,
                            upload |-> new_photo_file /= NoPhoto]
    /\ UNCHANGED <<seq, has_session, db, run, list_view>>

\* ---- the handlers, one phase at a time ----------------------------------
\* an order with the cache cleared before anything is written
StepOrder_CacheFirst(op) == <<"cache", "file", "row">>

\* the order of the phases in the body of each handler: the photo file
\* operations, the INSERT / UPDATE / DELETE with its commit, and
\* st.cache_data.clear()
StepOrder(op) ==
    IF op = "delete" THEN <<"row", "file", "cache">>
    ELSE <<"file", "row", "cache">>

\* the phases a call goes through: none after the early return on a missing
\* record, no cache phase after an INSERT that raised, the file phase alone
\* when update finds nothing to write, and a file phase only when the call
\* has a file to store or to remove
PhasesOf(op, found, ret, fileio) ==
    LET reached == IF ~found THEN {}
                   ELSE IF ret = "IntegrityError" THEN {"file", "row"}
                   ELSE IF op = "update" /\ ret = "False" THEN {"file"}
                   ELSE {"file", "row", "cache"}
        taken == IF fileio THEN reached ELSE reached \ {"file"}
    IN  SelectSeq(StepOrder(op), LAMBDA k : k \in taken)

Snapshot == [teachers |-> teachers, files |-> files, cache |-> cache]

CallAdd(args, photo, io) ==
    /\ run.op = "none"
    /\ seq < MaxId
    /\ \E r \in {add_teacher_to_db(teachers, seq, files, cache, args, photo, io)} :
           run' = [op |-> "add", id |-> r.id, args |-> args,
                   photo |-> photo /= NoPhoto,
                   r |-> [teachers |-> r.teachers, seq |-> r.seq,
                          files |-> r.files, cache |-> r.cache,
                          ret |-> r.ret, ioerr |-> r.ioerr],
                   before |-> Snapshot,
                   steps |-> PhasesOf("add", TRUE, r.ret, photo /= NoPhoto),
                   pc |-> 1]
    /\ UNCHANGED <<teachers, seq, files, cache, has_session, photo_cleared, last,
                   db, form, list_view>>

CallUpdate(id, args, photo, io) ==
    /\ run.op = "none"
    /\ \E r \in {update_teacher_in_db(teachers, files, cache, has_session,
                                     photo_cleared, id, args, photo, io)} :
           run' = [op |-> "update", id |-> id, args |-> args,
                   photo |-> photo /= NoPhoto,
                   r |-> [teachers |-> r.teachers, seq |-> seq,
                          files |-> r.files, cache |-> r.cache,
                          ret |-> r.ret, ioerr |-> r.ioerr],
                   before |-> Snapshot,
                   steps |-> PhasesOf("update", id \in DOMAIN teachers, r.ret,
                                \/ photo /= NoPhoto
                                \/ (photo_cleared /\ HasPhotoFile(teachers, files, id))),
                   pc |-> 1]
    /\ UNCHANGED <<teachers, seq, files, cache, has_session, photo_cleared, last,
                   db, form, list_view>>

CallDelete(id, io) ==
    /\ run.op = "none"
    /\ \E r \in {delete_teacher_from_db(teachers, files, cache, id, io)} :
           run' = [op |-> "delete", id |-> id, args |-> NoArgs, photo |-> FALSE,
                   r |-> [teachers |-> r.teachers, seq |-> seq,
                          files |-> r.files, cache |-> r.cache,
                          ret |-> r.ret, ioerr |-> r.ioerr],
                   before |-> Snapshot,
                   steps |-> PhasesOf("delete", id \in DOMAIN teachers, r.ret,
                                      HasPhotoFile(teachers, files, id)),
                   pc |-> 1]
    /\ UNCHANGED <<teachers, seq, files, cache, has_session, photo_cleared, last,
                   db, form, list_view>>

\* the call in progress carries out its next phase
DoPhase(k) ==
    /\ run.op /= "none"
    /\ run.pc <= Len(run.steps)
    /\ run.steps[run.pc] = k
    /\ files' = IF k = "file" THEN run.r.files ELSE files
    /\ teachers' = IF k = "row" THEN run.r.teachers ELSE teachers
    /\ seq' = IF k = "row" THEN run.r.seq ELSE seq
    /\ cache' = IF k = "cache" THEN run.r.cache ELSE cache
    /\ run' = [run EXCEPT !.pc = @ + 1]
    /\ UNCHANGED <<has_session, photo_cleared, last, db, form, list_view>>

\* the call in progress returns
Return ==
    /\ run.op /= "none"
    /\ run.pc > Len(run.steps)
    /\ last' = [op |-> run.op, id |-> run.id, ret |-> run.r.ret,
                args |-> run.args, photo |-> run.photo,
                cleared |-> photo_cleared, cached |-> run.before.cache.valid,
                ioerr |-> run.r.ioerr, upload |-> run.photo]
    /\ run' = NoRun
    /\ UNCHANGED <<teachers, seq, files, cache, has_session, photo_cleared, db,
                   form, list_view>>

\* ---- the list view ------------------------------------------------------
\* One script run of the list view (lines 537-617), started by a click (or by
\* none: a plain rerun). The cards of the cached list are drawn in order;
\* for each, lines 596-616 run with the buttons' values of this run.
ListRun(click) ==
    /\ click.button = "delete" => click.id \in list_view.cards
    /\ click.button = "confirm" => click.id \in list_view.confirm_buttons
    /\ LET shown == get_all_teachers_from_db_cached(teachers, cache)
           flags == list_view.confirm_delete
           \* if delete_button: ... (line 604)
           pressed == {id \in DOMAIN shown : Button("delete", id, click)}
           \* the "confirm" button is drawn inside if delete_button: if flag:
           drawn == {id \in pressed : id \in flags}
           \* if st.button("confirm", ...): delete_teacher_from_db(id)
           confirmed == {id \in drawn : Button("confirm", id, click)}
           \* else: st.session_state[confirm_delete_<id>] = True
           flagged == {id \in pressed : id \notin flags}
           history == IF click = NoClick THEN list_view.clicks
                      ELSE Remember(list_view.clicks, click)
       IN  IF confirmed /= {}
           THEN \* the record is deleted, its flag is dropped, and st.rerun()
                \* draws the list again from the table
                \E id \in confirmed :
                \E r \in {delete_teacher_from_db(teachers, files, cache, id, NoIO)} :
                       /\ teachers' = r.teachers
                       /\ files' = r.files
                       /\ cache' = [valid |-> TRUE, data |->
                              get_all_teachers_from_db_cached(r.teachers, r.cache)]
                       /\ list_view' = [cards |-> DOMAIN r.teachers,
                                        confirm_buttons |-> {},
                                        confirm_delete |-> flags \ {id},
                                        clicks |-> history]
                       /\ last' = [op |-> "delete", id |-> id, ret |-> r.ret,
                                   args |-> NoArgs, photo |-> FALSE,
                                   cleared |-> photo_cleared,
                                   cached |-> cache.valid, ioerr |-> r.ioerr,
                                   upload |-> FALSE]
           ELSE /\ cache' = [valid |-> TRUE, data |-> shown]
                /\ list_view' = [cards |-> DOMAIN shown,
                                 confirm_buttons |-> drawn,
                                 confirm_delete |-> flags \cup flagged,
                                 clicks |-> history]
                /\ last' = [NoCall EXCEPT !.op = "list_run", !.id = click.id,
                                          !.cached = cache.valid]
                /\ UNCHANGED <<teachers, files>>
    /\ UNCHANGED <<seq, has_session, photo_cleared, db, form, run>>

\* ---- inputs -------------------------------------------------------------
Uploads == PhotoFiles \cup {NoPhoto}

\* runs about photos: records as the add form creates them (empty optional
\* fields), no text change, every photo action and file fault
AddArgsP == {ArgsOf("n", "", "", "")}

UpdArgsP == {NoArgs}

EditsP == {ArgsOf(fn, None, None, None) : fn \in {None, ""}}

\* runs about text fields, without uploads: full_name and contact_number
\* vary, position starts NULL (the parameter's default) and the other
\* optional columns start empty; None in an update or an edit means "not
\* supplied" or "left as the form showed it"
AddArgsF == {ArgsOf(fn, cn, None, "") : fn \in {None, "", "n"}, cn \in {"", "x"}}

UpdArgsF == {ArgsOf(fn, cn, None, None) : fn \in {None, "", "n"},
                cn \in {None, "", "x"}}

EditsF == {ArgsOf(fn, cn, None, None) : fn \in {None, ""}, cn \in {None, "x"}}

\* ---- specifications ----------------------------------------------------
\* Spec: one record at a time, uploads, file faults, both backends
AddIO(photo) == AnswersFor(photo /= NoPhoto, FALSE, FALSE)

UpdateIO(id, photo, clearing) ==
    AnswersFor(id \in DOMAIN teachers /\ photo /= NoPhoto,
               HasPhotoFile(teachers, files, id) /\ (photo /= NoPhoto \/ clearing),
               id \in DOMAIN teachers /\ photo /= NoPhoto /\ has_session)

DeleteIO(id) == AnswersFor(FALSE, HasPhotoFile(teachers, files, id), FALSE)

Next ==
    \/ /\ Cardinality(DOMAIN teachers) < MaxRows
       /\ \E args \in AddArgsP, photo \in Uploads : \E io \in AddIO(photo) :
              AddTeacher(args, photo, io)
    \/ \E id \in Ids, args \in UpdArgsP, photo \in Uploads :
       \E io \in UpdateIO(id, photo, photo_cleared) :
           UpdateTeacher(id, args, photo, io)
    \/ \E id \in Ids : \E io \in DeleteIO(id) : DeleteTeacher(id, io)
    \/ \E id \in Ids, edits \in EditsP, clear \in BOOLEAN :
       \E io \in UpdateIO(id, NoPhoto, clear) :
           EditFormSubmit(id, edits, NoPhoto, clear, io)
    \/ \E id \in Ids, photo \in PhotoFiles : \E io \in UpdateIO(id, NoPhoto, TRUE) :
           EditFormSubmit(id, NoArgs, photo, TRUE, io)
    \/ NavButton

Spec == Init /\ [][Next]_vars

\* SpecFields: several records, text fields, the cache, both backends
NextFields ==
    \/ \E args \in AddArgsF : AddTeacher(args, NoPhoto, NoIO)
    \/ \E id \in Ids, args \in UpdArgsF : UpdateTeacher(id, args, NoPhoto, NoIO)
    \/ \E id \in Ids : DeleteTeacher(id, NoIO)
    \/ \E id \in Ids, edits \in EditsF :
           EditFormSubmit(id, edits, NoPhoto, FALSE, NoIO)
    \/ GetAllTeachers
    \/ CacheExpire

SpecFields == Init /\ [][NextFields]_vars

\* SpecPair: several records with photos, every file operation succeeding
NextPair ==
    \/ \E args \in AddArgsP, photo \in PhotoFiles, h \in HexValues :
           AddTeacher(args, photo, [NoIO EXCEPT !.hex1 = h])
    \/ \E id \in Ids, photo \in PhotoFiles, h1 \in HexValues,
          h2 \in (IF has_session THEN HexValues ELSE {1}) :
           UpdateTeacher(id, NoArgs, photo, [NoIO EXCEPT !.hex1 = h1, !.hex2 = h2])
    \/ \E id \in Ids : DeleteTeacher(id, NoIO)

SpecPair == Init /\ [][NextPair]_vars

\* SpecDelete: records with photos, the list read through the cache, and a
\* delete whose os.remove may fail
NextDelete ==
    \/ \E args \in AddArgsP, photo \in PhotoFiles, h \in HexValues :
           AddTeacher(args, photo, [NoIO EXCEPT !.hex1 = h])
    \/ GetAllTeachers
    \/ \E id \in Ids : \E io \in DeleteIO(id) : DeleteTeacher(id, io)

SpecDelete == Init /\ [][NextDelete]_vars

\* SpecSteps: the handlers taken one phase at a time, one call at a time,
\* one record at a time, every file operation succeeding
NextSteps ==
    \/ /\ Cardinality(DOMAIN teachers) < MaxRows
       /\ \E args \in AddArgsP, photo \in Uploads : CallAdd(args, photo, NoIO)
    \/ \E id \in Ids, photo \in Uploads :
           CallUpdate(id, NoArgs, photo, [NoIO EXCEPT !.hex1 = 2])
    \/ \E id \in Ids : CallDelete(id, NoIO)
    \/ DoPhase("file")
    \/ DoPhase("row")
    \/ DoPhase("cache")
    \/ Return
    \/ run.op = "none" /\ GetAllTeachers

SpecSteps == Init /\ [][NextSteps]_vars

\* SpecList: records are added and the list view is run on clicks of its
\* delete and confirm buttons
Clicks == {NoClick} \cup
          {[button |-> b, id |-> id] : b \in {"delete", "confirm"}, id \in Ids}

NextList ==
    \/ \E args \in AddArgsP : AddTeacher(args, NoPhoto, NoIO)
    \/ \E click \in Clicks : ListRun(click)

SpecList == Init /\ [][NextList]_vars

\* SpecEdit: an edit form stays open on one screen while another screen
\* (its own load and submit in one step) edits or deletes records
\* the open form's user retypes the name (or empties it, or changes nothing)
EditsA == {ArgsOf(fn, None, None, None) : fn \in {None, "", "m"}}

\* the other screen's user changes the contact number
EditsB == {ArgsOf(None, cn, None, None) : cn \in {"x", "y"}}

NextEdit ==
    \/ \E args \in AddArgsP : AddTeacher(args, NoPhoto, NoIO)
    \/ \E id \in Ids : EditFormLoad(id)
    \/ \E edits \in EditsA : EditFormSubmitLoaded(edits, NoPhoto, FALSE, NoIO)
    \/ \E id \in Ids, edits \in EditsB :
           EditFormSubmit(id, edits, NoPhoto, FALSE, NoIO)
    \/ \E id \in Ids : DeleteTeacher(id, NoIO)

SpecEdit == Init /\ [][NextEdit]_vars

\* SpecSchema: the process starts on a database file as it finds it: no
\* table, a table created before position was added, or the current table
\* (the same statements run on both backends)
AddArgsS == {ArgsOf("n", cn, "", "") : cn \in {"", "x"}}

\* the rows a table with these columns may hold when the process starts
RowsOver(columns) ==
    {[c \in columns \ {"id"} |->
         IF c = "full_name" THEN "n"
         ELSE IF c = "contact_number" THEN cn
         ELSE IF c = "photo_path" THEN None ELSE ""] : cn \in {"", "x"}}

\* the largest id of a set of ids, 0 for none
MaxOf(S) == IF S = {} THEN 0 ELSE CHOOSE m \in S : \A x \in S : x <= m

InitSchema ==
    /\ files = {}
    /\ cache = NoCache
    /\ has_session \in BOOLEAN
    /\ photo_cleared = FALSE
    /\ last = NoCall
    /\ form = NoForm
    /\ run = NoRun
    /\ list_view = NoListView
    /\ \E tbl \in BOOLEAN, dir \in BOOLEAN, columns \in {OldColumns, AllColumns} :
           IF tbl
           THEN /\ db = [table |-> TRUE, columns |-> columns, dir |-> dir]
                /\ \E S \in SUBSET Ids :
                       /\ teachers \in [S -> RowsOver(columns)]
                       /\ seq \in MaxOf(S)..MaxId
           ELSE /\ db = [NoTable EXCEPT !.dir = dir]
                /\ teachers = << >>
                /\ seq = 0

\* setup_database has run: the handlers are only called after line 481
SchemaReady == db = ReadyDb

NextSchema ==
    \/ SetupDatabase
    \/ /\ SchemaReady
       /\ \E args \in AddArgsS : AddTeacher(args, NoPhoto, NoIO)
    \/ /\ SchemaReady
       /\ \E id \in Ids : DeleteTeacher(id, NoIO)

SpecSchema == InitSchema /\ [][NextSchema]_vars

\* ---- properties ---------------------------------------------------------
\* the step just taken was a call of update_teacher_in_db on a stored record
UpdateOnExisting == last'.op = "update" /\ last'.id \in DOMAIN teachers

\* C1: a successful update leaves each textual column of the record equal to
\* the supplied value when that value is not None and differs from the stored
\* one, and to its prior value otherwise; photo_path keeps its value when the
\* call carries no photo action; every other row keeps all its columns.
C1_UpdateWritesOnlyChanged ==
    [][(UpdateOnExisting /\ last'.ret = "True") =>
        LET id == last'.id
            a == last'.args
        IN  /\ DOMAIN teachers' = DOMAIN teachers
            /\ \A c \in TextCols :
                   teachers'[id][c] =
                       IF a[c] /= None /\ a[c] /= teachers[id][c]
                       THEN a[c] ELSE teachers[id][c]
            /\ (~last'.photo /\ ~last'.cleared =>
                   teachers'[id].photo_path = teachers[id].photo_path)
            /\ \A j \in DOMAIN teachers \ {id} : teachers'[j] = teachers[j]]_vars

\* an update just wrote contact_number alone, with another record stored
C1_Witness ==
    /\ last.op = "update" /\ last.ret = "True"
    /\ Cardinality(DOMAIN teachers) = 2
    /\ last.args.contact_number = "x"
    /\ last.args.full_name = None /\ last.args.position = None
    /\ teachers[last.id].contact_number = "x"

\* C2: an update of a stored record with no field change (a field not
\* supplied, supplied equal to the stored value, or stored as NULL and
\* resubmitted as the empty string) and no photo action returns False and
\* leaves the table, the photo directory and the cache as they were.
C2_NoChangeUpdateIsNoOp ==
    [][(/\ UpdateOnExisting /\ ~last'.photo /\ ~last'.cleared
        /\ \A c \in TextCols :
               \/ last'.args[c] = None
               \/ last'.args[c] = teachers[last'.id][c]
               \/ (teachers[last'.id][c] = None /\ last'.args[c] = ""))
       => (/\ last'.ret = "False" /\ teachers' = teachers
           /\ files' = files /\ cache' = cache)]_vars

\* C3: when an update with a new photo on a record that has a photo returns
\* (no file operation of the call having raised), the new file is present
\* and named by photo_path, the old file is gone, and the directory differs
\* from before by exactly that: old name out, new name in.
C3_PhotoReplaceLeavesOneFile ==
    [][(/\ UpdateOnExisting /\ last'.photo /\ ~last'.ioerr
        /\ teachers[last'.id].photo_path /= None)
       => LET old == teachers[last'.id].photo_path
              new == teachers'[last'.id].photo_path
          IN  /\ new /= None
              /\ new \in files'
              /\ (old /= new => old \notin files')
              /\ files' = (files \ {old}) \cup {new}]_vars

\* C4 as claimed: after an update with the clear-photo flag set and no new
\* photo on a record that has a photo, the old file is not in the directory
\* and photo_path is NULL.
C4_ClearPhotoRemovesFile ==
    [][(/\ UpdateOnExisting /\ last'.cleared /\ ~last'.photo
        /\ teachers[last'.id].photo_path /= None)
       => (/\ teachers'[last'.id].photo_path = None
           /\ teachers[last'.id].photo_path \notin files')]_vars

\* C4 amended: after such an update photo_path is NULL, and the old file is
\* not in the directory unless removing it raised an I/O error.
C4_ClearPhotoRemovesFileUnlessIOError ==
    [][(/\ UpdateOnExisting /\ last'.cleared /\ ~last'.photo
        /\ teachers[last'.id].photo_path /= None)
       => (/\ teachers'[last'.id].photo_path = None
           /\ last'.ret = "True"
           /\ (~last'.ioerr => teachers[last'.id].photo_path \notin files'))]_vars

\* a clear-photo update just returned without an I/O error: the record has
\* no photo_path and the directory is empty again
C4_Witness ==
    /\ last.op = "update" /\ last.cleared /\ ~last.photo /\ ~last.ioerr
    /\ last.ret = "True"
    /\ last.id \in DOMAIN teachers
    /\ teachers[last.id].photo_path = None
    /\ seq = 1 /\ files = {}
    /\ last.args.full_name = "n"

\* C5: every record whose photo_path is present names a file that exists in
\* the photo directory (each handler call is one step, so no state is inside
\* an operation).
C5_PhotoPathNamesExistingFile ==
    \A id \in DOMAIN teachers :
        teachers[id].photo_path /= None => teachers[id].photo_path \in files

\* C6: what get_all_teachers_from_db_cached returns is the current table, and
\* a create, update or delete that returned success left the cache cleared.
C6_ReadYourWrites ==
    /\ get_all_teachers_from_db_cached(teachers, cache) = teachers
    /\ ((last.op \in {"add", "update", "delete"} /\ last.ret \in {"None", "True"})
           => ~cache.valid)

\* a successful update was made while get_all had a cached value
C6_Witness ==
    /\ last.op = "update" /\ last.ret = "True" /\ last.cached
    /\ ~cache.valid

\* C7: a successful delete leaves get_by_id of that id returning None, an id
\* that is gone stays gone, and a delete of an id that is not stored returns
\* False and changes no row and no file.
C7_DeleteThenAbsent ==
    [][/\ (last'.op = "delete" /\ last'.ret = "True"
              => get_teacher_by_id_from_db(teachers', last'.id) = << >>)
       /\ \A id \in 1..seq : id \notin DOMAIN teachers => id \notin DOMAIN teachers'
       /\ (last'.op = "delete" /\ get_teacher_by_id_from_db(teachers, last'.id) = << >>
              => (last'.ret = "False" /\ teachers' = teachers /\ files' = files))]_vars

\* a second delete of an id that was handed out and deleted returned False,
\* with a later record and its photo file still stored
C7_Witness ==
    /\ last.op = "delete" /\ last.ret = "False"
    /\ last.id \in 1..seq /\ last.id \notin DOMAIN teachers
    /\ HasPhotoFile(teachers, files, seq)

\* the row add_teacher_to_db is asked to store when no photo is given
RowOf(args) == [c \in Cols |-> IF c = "photo_path" THEN None ELSE args[c]]

\* a create with a non-empty full_name and no photo was the step just taken
ValidCreate ==
    /\ last'.op = "add" /\ ~last'.photo
    /\ last'.args.full_name \notin {None, ""}

C9_FullNameNeverEmpty ==
    \A id \in DOMAIN teachers : teachers[id].full_name /= ""

\* C10: no two records name the same stored photo file.
C10_UniqueStoredNames ==
    \A i, j \in DOMAIN teachers :
        (i /= j /\ teachers[i].photo_path /= None)
            => teachers[i].photo_path /= teachers[j].photo_path

\* every file in the photo directory is named by the photo_path of exactly
\* one record
EveryFileNamedOnce(t, fs) ==
    \A f \in fs : Cardinality({id \in DOMAIN t : t[id].photo_path = f}) = 1

\* C11: between handler calls (each call is one step, so no state is inside
\* an operation), every file in the photo directory is named by the
\* photo_path of exactly one record. Stated as the step that has to preserve
\* it: a create, update or delete during which no file operation raised,
\* called in a state where it holds, returns in a state where it holds.
C11_NoOrphanedPhotoFiles ==
    [][(/\ last'.op \in {"add", "update", "delete"} /\ ~last'.ioerr
        /\ EveryFileNamedOnce(teachers, files))
       => EveryFileNamedOnce(teachers', files')]_vars

\* C12: setup_database, from no table, a table without position or the
\* current table, raises nothing and leaves the table with every current
\* column, the same rows and every value a row had; run right after a run of
\* itself it performs no ALTER and changes neither the table nor the rows.
C12_SetupDatabaseCompletesAndIsIdempotent ==
    [][last'.op = "setup" =>
        /\ last'.ret \in {"created", "altered", "unchanged"}
        /\ db'.table /\ db'.columns = AllColumns
        /\ db.columns \subseteq db'.columns
        /\ DOMAIN teachers' = DOMAIN teachers
        /\ \A id \in DOMAIN teachers :
               /\ DOMAIN teachers'[id] = AllColumns \ {"id"}
               /\ \A c \in DOMAIN teachers[id] : teachers'[id][c] = teachers[id][c]
        /\ (last.op = "setup" =>
               /\ last'.ret = "unchanged"
               /\ db' = db /\ teachers' = teachers)]_vars

\* setup_database has just found a table it had altered before, whose rows
\* carry the NULL position of the ALTER, and left it alone
C12_Witness ==
    /\ last.op = "setup" /\ last.ret = "unchanged"
    /\ db = ReadyDb
    /\ \E id \in DOMAIN teachers :
           teachers[id].position = None /\ teachers[id].contact_number = "x"

\* C13: when delete is called on a stored record whose photo file exists and
\* os.remove raises, the row is deleted all the same, the other rows are
\* untouched, the cache is cleared and delete returns True; the file stays.
C13_DeleteSurvivesRemoveFailure ==
    [][(/\ last'.op = "delete" /\ last'.ioerr
        /\ HasPhotoFile(teachers, files, last'.id))
       => (/\ last'.id \notin DOMAIN teachers'
           /\ \A j \in DOMAIN teachers \ {last'.id} :
                  j \in DOMAIN teachers' /\ teachers'[j] = teachers[j]
           /\ ~cache'.valid
           /\ last'.ret = "True"
           /\ files' = files)]_vars

\* a delete whose os.remove raised has just returned True while the list was
\* cached: the row is gone, its file is still there, the cache is cleared
C13_Witness ==
    /\ last.op = "delete" /\ last.ioerr /\ last.ret = "True" /\ last.cached
    /\ last.id \notin DOMAIN teachers
    /\ files /= {}
    /\ ~cache.valid

\* C14: when a form that was opened earlier is submitted with a change to
\* some field and the update succeeds, every field the user changed holds
\* the user's value and every field the user left as the form showed it
\* holds the value stored just before the submit (what another actor may
\* have committed since the form was opened).
C14_StaleFormKeepsOthersFields ==
    [][(/\ form.id /= 0 /\ form'.id = 0
        /\ last'.op = "update" /\ last'.ret = "True" /\ last'.id = form.id
        /\ \E x \in TextCols : last'.args[x] /= form.shown[x])
       => \A c \in TextCols :
              teachers'[form.id][c] =
                  IF last'.args[c] = form.shown[c]
                  THEN teachers[form.id][c] ELSE last'.args[c]]_vars

\* the names a stored upload can get
StoredNames == {NewFilename(p, h) : p \in PhotoFiles, h \in HexValues}

\* C15: in an update of a stored record during which no file operation
\* raised, a new photo wins over the clear-photo flag: when a new photo file
\* is supplied and the flag is set as well, photo_path ends as the name of a
\* file just stored, not NULL; when neither is given, photo_path and the
\* directory stay as they were.
C15_NewPhotoBeatsClearFlag ==
    [][(UpdateOnExisting /\ ~last'.ioerr) =>
        /\ (last'.upload /\ last'.cleared =>
               /\ teachers'[last'.id].photo_path \in StoredNames
               /\ teachers'[last'.id].photo_path \in files')
        /\ (~last'.upload /\ ~last'.cleared =>
               /\ teachers'[last'.id].photo_path = teachers[last'.id].photo_path
               /\ files' = files)]_vars

\* the phases the call in progress has carried out
PhasesDone == {run.steps[i] : i \in 1..(run.pc - 1)}

\* the row write of the call in progress is in the table
RowWritten == teachers /= run.before.teachers

\* the directory is as the call in progress will leave it
FileIODone == files = run.r.files

\* C16 as claimed: inside every create, update and delete, once the row is
\* written the photo file operations of the call are over, and once the
\* cache is cleared both the file operations and the row write are over.
C16_FileThenRowThenCache ==
    run.op /= "none" =>
        /\ (RowWritten => FileIODone)
        /\ ("cache" \in PhasesDone =>
               FileIODone /\ teachers = run.r.teachers)

\* C16 amended: inside create and update the file operations come before
\* the row write; inside delete the row is deleted before the photo file is
\* removed; in all three the cache is cleared after both.
C16_CacheLastDeleteRowFirst ==
    run.op /= "none" =>
        /\ (run.op \in {"add", "update"} => (RowWritten => FileIODone))
        /\ (run.op = "delete" =>
               (files /= run.before.files => teachers = run.r.teachers))
        /\ ("cache" \in PhasesDone =>
               FileIODone /\ teachers = run.r.teachers)

\* inside a delete of a record with a photo, called while the list was
\* cached: the row is gone, the file is still there, the cache still valid
C16_Witness ==
    /\ run.op = "delete"
    /\ run.id \notin DOMAIN teachers
    /\ files = run.before.files /\ files /= run.r.files
    /\ cache.valid

\* C17: delete_teacher_from_db is called only for a record whose
\* confirm_delete flag an earlier press of its delete button had set, and
\* the run started by the third click of the sequence delete, delete,
\* confirm on a stored record calls delete_teacher_from_db for that record.
C17_TwoStepDeleteConfirmation ==
    [][/\ (last'.op = "delete" => last'.id \in list_view.confirm_delete)
       /\ \A id \in DOMAIN teachers :
              (/\ list_view' /= list_view
               /\ list_view'.clicks = <<[button |-> "delete", id |-> id],
                                        [button |-> "delete", id |-> id],
                                        [button |-> "confirm", id |-> id]>>)
              => (last'.op = "delete" /\ last'.id = id)]_vars

====
